---------------------------- MODULE Spec2Model ----------------------------
(***************************************************************************)
(* SGDI file reconciliation and retrieval engine.                          *)
(*                                                                         *)
(*   FileSearcher.search_and_copy / stop   (file_searcher.py)              *)
(*       Spec       one invocation, with cancellation and faults           *)
(*       SpecRerun  several invocations in a row, no cancellation          *)
(*   FileAuditor.audit                     (file_auditor.py)               *)
(*       SpecAudit  one audit of a reference text against a folder         *)
(*   QRReader._handle_duplicate            (qr_reader.py)                  *)
(*       SpecResolve  files moved one by one into an output folder         *)
(*                                                                         *)
(* File names and tokens are strings, handled character by character with  *)
(* Len, SubSeq and \o as the Python code handles them.                      *)
(***************************************************************************)
EXTENDS Integers, Sequences, FiniteSets, TLC

(***************************************************************************)
(* Bounds of the model.                                                    *)
(***************************************************************************)
\* subdirectories beneath the root of the searched tree
MaxSubdirs == 1
\* environment faults injected (copy error, listing error, ...)
MaxFaults == 1
\* invocations of search_and_copy on the same FileSearcher
MaxRuns == 2

(***************************************************************************)
(* String helpers (str / pathlib semantics).                               *)
(***************************************************************************)
\* str.startswith
StartsWith(s, p) == Len(p) <= Len(s) /\ SubSeq(s, 1, Len(p)) = p

\* str.rfind('.') as a 1-based index, 0 when there is no dot
RECURSIVE RFindDot(_, _)
RFindDot(s, i) ==
    IF i = 0 THEN 0
    ELSE IF SubSeq(s, i, i) = "." THEN i ELSE RFindDot(s, i - 1)

\* PurePath.suffix: the last dot counts unless it is the first or the last
\* character of the name
PathSuffix(name) ==
    LET i == RFindDot(name, Len(name))
    IN  IF 1 < i /\ i < Len(name) THEN SubSeq(name, i, Len(name)) ELSE ""

\* PurePath.stem
PathStem(name) ==
    LET i == RFindDot(name, Len(name))
    IN  IF 1 < i /\ i < Len(name) THEN SubSeq(name, 1, i - 1) ELSE name

SeqToSet(s) == { s[i] : i \in 1..Len(s) }

RECURSIVE FlatMap(_, _)
\* concatenation of Op-images, used for nested for-loops building a list
FlatMap(Op(_), s) ==
    IF s = <<>> THEN <<>> ELSE Op(Head(s)) \o FlatMap(Op, Tail(s))

Char(s, i) == SubSeq(s, i, i)
Rest(s) == SubSeq(s, 2, Len(s))

IsDigit(c) == c \in { "0", "1", "2", "3", "4", "5", "6", "7", "8", "9" }
IsSpace(c) == c \in { " ", "\t", "\n", "\r" }
\* \w of the re module, for the characters of the model
IsWord(c) == ~IsSpace(c) /\ c \notin { ".", "-", "/" }

LowerChars == "abcdefghijklmnopqrstuvwxyz"
UpperChars == "ABCDEFGHIJKLMNOPQRSTUVWXYZ"

RECURSIVE IndexIn(_, _, _)
\* 1-based position of character c in s from position i on, 0 when absent
IndexIn(c, s, i) ==
    IF i > Len(s) THEN 0
    ELSE IF Char(s, i) = c THEN i ELSE IndexIn(c, s, i + 1)

UpperChar(c) ==
    LET i == IndexIn(c, LowerChars, 1)
    IN  IF i = 0 THEN c ELSE Char(UpperChars, i)

LowerChar(c) ==
    LET i == IndexIn(c, UpperChars, 1)
    IN  IF i = 0 THEN c ELSE Char(LowerChars, i)

RECURSIVE MapStr(_, _)
MapStr(F(_), s) ==
    IF s = "" THEN "" ELSE F(Char(s, 1)) \o MapStr(F, Rest(s))

\* str.upper, str.lower
Upper(s) == MapStr(UpperChar, s)
Lower(s) == MapStr(LowerChar, s)

RECURSIVE LStrip(_)
LStrip(s) ==
    IF s = "" THEN ""
    ELSE IF IsSpace(Char(s, 1)) THEN LStrip(Rest(s)) ELSE s

RECURSIVE RStrip(_)
RStrip(s) ==
    IF s = "" THEN ""
    ELSE IF IsSpace(Char(s, Len(s))) THEN RStrip(SubSeq(s, 1, Len(s) - 1)) ELSE s

\* str.strip
Strip(s) == RStrip(LStrip(s))

\* str.endswith
EndsWith(s, p) == Len(p) <= Len(s) /\ SubSeq(s, Len(s) - Len(p) + 1, Len(s)) = p

RECURSIVE SplitChar(_, _, _)
\* str.split(c) for a one-character separator; acc is the field being read
SplitChar(s, c, acc) ==
    IF s = "" THEN << acc >>
    ELSE IF Char(s, 1) = c THEN << acc >> \o SplitChar(Rest(s), c, "")
    ELSE SplitChar(Rest(s), c, acc \o Char(s, 1))

RECURSIVE SplitWords(_, _)
\* str.split(): the maximal runs of non-whitespace characters
SplitWords(s, acc) ==
    IF s = "" THEN (IF acc = "" THEN <<>> ELSE << acc >>)
    ELSE IF IsSpace(Char(s, 1))
         THEN (IF acc = "" THEN <<>> ELSE << acc >>) \o SplitWords(Rest(s), "")
         ELSE SplitWords(Rest(s), acc \o Char(s, 1))

RECURSIVE SpaceRun(_)
\* length of the run of whitespace s starts with
SpaceRun(s) ==
    IF s = "" \/ ~IsSpace(Char(s, 1)) THEN 0 ELSE 1 + SpaceRun(Rest(s))

RECURSIVE SplitFields(_, _)
\* re.split(r'\t|\s{2,}', s): at each position a tab is a separator by
\* itself, otherwise a run of two or more whitespace characters is one
SplitFields(s, acc) ==
    IF s = "" THEN << acc >>
    ELSE IF Char(s, 1) = "\t" THEN << acc >> \o SplitFields(Rest(s), "")
    ELSE IF SpaceRun(s) >= 2
         THEN << acc >> \o SplitFields(SubSeq(s, SpaceRun(s) + 1, Len(s)), "")
         ELSE SplitFields(Rest(s), acc \o Char(s, 1))

RECURSIVE KeepDigits(_)
\* re.sub(r'\D', '', s)
KeepDigits(s) ==
    IF s = "" THEN ""
    ELSE (IF IsDigit(Char(s, 1)) THEN Char(s, 1) ELSE "") \o KeepDigits(Rest(s))

RECURSIVE RunOf(_, _)
\* the longest prefix of s made of characters of the class
RunOf(Class(_), s) ==
    IF s = "" \/ ~Class(Char(s, 1)) THEN ""
    ELSE Char(s, 1) \o RunOf(Class, Rest(s))

RECURSIVE FirstRun(_, _)
\* re.search of a pattern (c+) with c a character class: the leftmost
\* maximal run, as a one-element sequence, or <<>> when nothing matches
FirstRun(Class(_), s) ==
    IF s = "" THEN <<>>
    ELSE IF Class(Char(s, 1)) THEN << RunOf(Class, s) >>
    ELSE FirstRun(Class, Rest(s))

RECURSIVE JoinWith(_, _)
\* sep.join(seq)
JoinWith(sep, seq) ==
    IF seq = <<>> THEN ""
    ELSE IF Len(seq) = 1 THEN seq[1]
    ELSE seq[1] \o sep \o JoinWith(sep, Tail(seq))

RECURSIVE StrLess(_, _)
\* a < b for Python strings of digits: compared character by character
StrLess(a, b) ==
    IF b = "" THEN FALSE
    ELSE IF a = "" THEN TRUE
    ELSE IF Char(a, 1) = Char(b, 1) THEN StrLess(Rest(a), Rest(b))
    ELSE IndexIn(Char(a, 1), "0123456789", 1) < IndexIn(Char(b, 1), "0123456789", 1)

RECURSIVE Sorted(_)
\* sorted(S) for a set of digit strings
Sorted(S) ==
    IF S = {} THEN <<>>
    ELSE LET m == CHOOSE x \in S : \A y \in S \ {x} : StrLess(x, y)
         IN  << m >> \o Sorted(S \ {m})

(***************************************************************************)
(* The searched tree.  Directory 0 is the root; directories 1..n are its   *)
(* subdirectories.  A source file is identified by its path <<dir, name>>, *)
(* and its content is named after its path.                                *)
(***************************************************************************)
\* possible file listings of one directory (os.listdir order)
Listings ==
    { <<>>, <<"100045_a.pdf">>, <<"100045_a.pdf", "100045_b.pdf">> }

\* name of the i-th subdirectory; it starts like a token
SubdirName(i) == "100045_d" \o ToString(i)

\* possible file_names arguments: a name given twice, and two names of
\* which one is a prefix of the other
TokenLists == { <<"100045", "100045">>, <<"100045_b", "1000">> }

\* content of a file that is in the destination before the first run
OldContent == "old"

\* possible destination folders before the first run: name -> content
DestStates == { <<>>, [n \in {"100045_a.pdf"} |-> OldContent] }

\* possible file listings of a subdirectory
SubListings == { <<>>, <<"100045_a.pdf">> }

Trees ==
    UNION { { [n |-> n, files |-> f, dname |-> [i \in 1..n |-> SubdirName(i)]] :
                f \in { g \in [0..n -> Listings] :
                            \A i \in 1..n : g[i] \in SubListings } } :
            n \in 0..MaxSubdirs }

ContentOf(path) == ToString(path[1]) \o "/" \o path[2]

VARIABLES
    tree,            \* the searched tree (unchanged by the program)
    sourceExists,    \* source.exists()
    file_names,      \* the file_names argument
    setOrder,        \* iteration order of search_set (a Python set)
    dest,            \* destination folder: file name -> content
    destDir,         \* the destination directory exists
    stop_requested,  \* FileSearcher.stop_requested
    pc,              \* position of the thread running search_and_copy
    stats,           \* the stats dictionary
    subdirs,         \* list built by _get_subdirectories
    walkPos,         \* position of os.walk in _get_subdirectories
    task,            \* futures: index of subdirs -> state and result
    merged,          \* futures already consumed from as_completed
    cur,             \* future being merged
    found_files,     \* found_files dictionary
    tokIdx,          \* position of the outer copy loop in found_files
    idx,             \* position of the inner copy loop in paths
    exc,             \* an exception is propagating to the outer handler
    raised,          \* an exception escaped search_and_copy
    run,             \* number of invocations so far
    runsLeft,        \* invocations the caller will still make
    faults,          \* environment faults injected so far
    stopSeen,        \* stop() was called since this invocation
    stopAt,          \* where the driver was when the flag was raised
    copyLog,         \* "Copiado: src -> dest" log lines and error records
    prev,            \* result and destination of the previous run
    listFailed,      \* futures whose os.listdir raised OSError
    \* FileAuditor
    a_pc,            \* "idle" before audit(), "done" after it returned
    a_text,          \* the reference_text argument
    a_files,         \* file names of the folder, in os.walk order
    a_pattern,       \* the file_pattern argument
    a_result,        \* the dictionary audit() returned
    a_db,            \* rows written by save_file_audit
    a_scanned,       \* scan_folder was called
    \* QRReader
    r_pc,            \* "idle", "check", "unique", "probe", "ret" or "raised"
    r_dir,           \* the output folder: file name -> content
    r_src,           \* content of the source file being processed
    r_policy,        \* the policy argument
    r_dest,          \* the dest_path argument (a name in the output folder)
    r_ret,           \* what _handle_duplicate returned
    r_pre,           \* the output folder when _handle_duplicate was called
    r_counter,       \* the counter of _get_unique_path
    r_errdir,        \* the error folder: file name -> content
    r_loc,           \* where the file handed to process_file is: <<folder, name>>
    r_result,        \* the dictionary process_file returned
    r_calls,         \* files processed so far
    r_stats,         \* the stats dictionary of process_directory
    \* CodeGenerator
    g_pc,            \* "idle", "loop", "gen", "ret" or "done"
    g_db,            \* codes stored in generated_codes
    g_batch,         \* generate_code was called by generate_batch
    g_count,         \* the count argument
    g_prefix,        \* the prefix argument of generate_batch
    g_save,          \* the save_to_db argument
    g_i,             \* the loop variable i of generate_batch
    g_successful,    \* the list successful
    g_errors,        \* the list errors
    g_cprefix,       \* the prefix argument of the running generate_code frame
    g_length,        \* the length argument of generate_code
    g_tries,         \* candidate codes generated since generate_code was entered
    g_ret,           \* what generate_code returned
    g_log            \* the record handed to log_operation

vars == << tree, sourceExists, file_names, setOrder, dest, destDir,
           stop_requested, pc, stats, subdirs, walkPos, task, merged, cur,
           found_files, tokIdx, idx, exc, raised, run, runsLeft, faults,
           stopSeen, stopAt, copyLog, prev, listFailed, a_pc, a_text, a_files, a_pattern,
           a_result, a_db, a_scanned, r_pc, r_dir, r_src, r_policy, r_dest, r_ret, r_pre,
           r_counter, r_errdir, r_loc, r_result, r_calls, r_stats, g_pc, g_db, g_batch,
           g_count, g_prefix, g_save, g_i, g_successful, g_errors, g_cprefix,
           g_length, g_tries, g_ret, g_log >>

auditVars == << a_pc, a_text, a_files, a_pattern, a_result, a_db, a_scanned >>

resolverVars == << r_pc, r_dir, r_src, r_policy, r_dest, r_ret, r_pre,
                  r_counter, r_errdir, r_loc, r_result, r_calls, r_stats >>

generatorVars == << g_pc, g_db, g_batch, g_count, g_prefix, g_save, g_i,
                   g_successful, g_errors, g_cprefix, g_length, g_tries,
                   g_ret, g_log >>

\* what no step of search_and_copy changes
envVars == << tree, sourceExists, file_names, setOrder, runsLeft, auditVars,
             resolverVars, generatorVars >>


(***************************************************************************)
(* FileSearcher: helpers of search_and_copy.                               *)
(***************************************************************************)
\* os.listdir(directory): the files of the directory, and for the root the
\* names of its subdirectories as well
ListDir(d) ==
    [i \in 1..Len(tree.files[d]) |-> [name |-> tree.files[d][i], isFile |-> TRUE]]
    \o (IF d = 0
        THEN [i \in 1..tree.n |-> [name |-> tree.dname[i], isFile |-> FALSE]]
        ELSE <<>>)

\* os.walk(root): top-down, the root first
WalkOrder == [i \in 1..(tree.n + 1) |-> i - 1]

\* a scan that does not ask whether the entry is a file
SearchInDirectory_AnyEntry(d) ==
    LET PerItem(item) ==
            LET PerName(search_name) ==
                    IF StartsWith(item.name, search_name)
                    THEN << <<search_name, <<d, item.name>> >> >>
                    ELSE <<>>
            IN  FlatMap(PerName, setOrder)
    IN  FlatMap(PerItem, ListDir(d))

\* _search_in_directory: for item in listdir, for search_name in search_set
SearchInDirectory(d) ==
    LET PerItem(item) ==
            LET PerName(search_name) ==
                    IF StartsWith(item.name, search_name) /\ item.isFile
                    THEN << <<search_name, <<d, item.name>> >> >>
                    ELSE <<>>
            IN  FlatMap(PerName, setOrder)
    IN  FlatMap(PerItem, ListDir(d))

\* DestFile numbering the copies from 2 (enumerate(paths, 1))
DestFile_FromTwo(name, i) ==
    IF i > 0
    THEN PathStem(name) \o "_copia" \o ToString(i + 1) \o PathSuffix(name)
    ELSE name

\* destination file name of the idx-th (0-based) match of a token
\* (lines 126-132)
DestFile(name, i) ==
    IF i > 0
    THEN PathStem(name) \o "_copia" \o ToString(i) \o PathSuffix(name)
    ELSE name

ZeroStats ==
    [ searched |-> 0, found |-> 0, copied |-> 0, errors |-> 0,
      not_found |-> <<>>, error_details |-> <<>>, duplicate_files |-> <<>> ]

\* lines 114-119: a token with matches is counted, and registered as a
\* duplicate when it has more than one
StatsOnFound(s, file_name, paths) ==
    [ s EXCEPT !.found = @ + Len(paths),
               !.duplicate_files =
                   IF Len(paths) > 1 THEN (file_name :> Len(paths)) @@ @ ELSE @ ]

\* line 157
StatsOnNotFound(s, file_name) ==
    [ s EXCEPT !.not_found = Append(@, file_name) ]

\* line 135
StatsOnCopied(s) == [ s EXCEPT !.copied = @ + 1 ]

\* the per-file error handler without its error record
StatsOnCopyError_NoRecord(s, file_name, src_path, dest_file, etype) ==
    [ s EXCEPT !.errors = @ + 1 ]

\* lines 139-151: the per-file error handler
StatsOnCopyError(s, file_name, src_path, dest_file, etype) ==
    [ s EXCEPT !.errors = @ + 1,
               !.error_details = Append(@,
                   [ file_name |-> src_path[2], search_name |-> file_name,
                     error_type |-> etype, source_path |-> src_path,
                     destination_path |-> dest_file ]) ]

\* the handler of the outer try without its error record
StatsOnGeneralError_NoRecord(s, etype) ==
    [ s EXCEPT !.errors = @ + 1 ]

\* lines 190-204: the handler of the outer try
StatsOnGeneralError(s, etype) ==
    [ s EXCEPT !.errors = @ + 1,
               !.error_details = Append(@,
                   [ file_name |-> "N/A (Error general del sistema)",
                     search_name |-> "N/A", error_type |-> etype,
                     source_path |-> <<0, "">>, destination_path |-> "" ]) ]

\* error types shutil.copy2 is modelled to fail with
CopyErrors == { "PermissionError", "FileNotFoundError" }

TaskIds == 1..Len(subdirs)
Token == setOrder[tokIdx]
Paths == found_files[Token]

driverLocals == << subdirs, walkPos, task, merged, cur, found_files, tokIdx, idx, exc >>

(***************************************************************************)
(* Initial state: a tree, a request and a destination; nothing invoked.    *)
(***************************************************************************)
\* process_directory, lines 535-542
ZeroDirectoryStats ==
    [ procesados |-> 0, exitosos |-> 0, fallidos |-> 0, sin_qr |-> 0,
      duplicados |-> 0, saltados |-> 0 ]

\* no audit under way
AuditIdle ==
    /\ a_pc = "idle"
    /\ a_text = ""
    /\ a_files = <<>>
    /\ a_pattern = ""
    /\ a_result = <<>>
    /\ a_db = <<>>
    /\ a_scanned = FALSE

\* no file being processed by the QR reader
ResolverIdle ==
    /\ r_pc = "idle"
    /\ r_dir = <<>>
    /\ r_src = ""
    /\ r_policy = ""
    /\ r_dest = ""
    /\ r_ret = <<>>
    /\ r_pre = <<>>
    /\ r_counter = 0
    /\ r_errdir = <<>>
    /\ r_loc = <<>>
    /\ r_result = <<>>
    /\ r_calls = 0
    /\ r_stats = ZeroDirectoryStats

\* no code being generated
GeneratorIdle ==
    /\ g_pc = "idle"
    /\ g_db = {}
    /\ g_batch = FALSE
    /\ g_count = 0
    /\ g_prefix = ""
    /\ g_save = FALSE
    /\ g_i = 0
    /\ g_successful = <<>>
    /\ g_errors = <<>>
    /\ g_cprefix = ""
    /\ g_length = 0
    /\ g_tries = 0
    /\ g_ret = <<>>
    /\ g_log = <<>>

Perms(S) ==
    { p \in [1..Cardinality(S) -> S] :
        \A i, j \in 1..Cardinality(S) : p[i] = p[j] => i = j }

EmptyTree == [n |-> 0, files |-> [d \in {0} |-> <<>>], dname |-> <<>>]

InitWith(r, f) ==
    /\ sourceExists \in BOOLEAN
    /\ tree \in IF sourceExists THEN Trees ELSE {EmptyTree}
    /\ file_names \in TokenLists
    /\ setOrder \in Perms(SeqToSet(file_names))
    /\ dest \in DestStates
    /\ destDir = (dest # <<>>)
    /\ stop_requested = FALSE
    /\ pc = "idle"
    /\ stats = ZeroStats
    /\ subdirs = <<>>
    /\ walkPos = 0
    /\ task = <<>>
    /\ merged = {}
    /\ cur = 0
    /\ found_files = <<>>
    /\ tokIdx = 0
    /\ idx = 0
    /\ exc = FALSE
    /\ raised = FALSE
    /\ run = 0
    /\ runsLeft = r
    /\ faults = f
    /\ stopSeen = FALSE
    /\ stopAt = <<>>
    /\ copyLog = <<>>
    /\ prev = <<>>
    /\ listFailed = {}
    /\ AuditIdle
    /\ ResolverIdle
    /\ GeneratorIdle

(***************************************************************************)
(* FileSearcher.stop, called from the GUI thread.                          *)
(***************************************************************************)
Stop ==
    /\ pc \notin {"idle", "done"}
    /\ stop_requested' = TRUE
    /\ stopSeen' = TRUE
    /\ stopAt' = IF ~stop_requested /\ pc \in {"scan", "merge"}
                 THEN << [pc |-> pc, k |-> stats.searched] >>
                 ELSE stopAt
    /\ UNCHANGED << envVars, dest, destDir, pc, stats, driverLocals, raised,
                    run, faults, copyLog, prev,
                    listFailed >>

(***************************************************************************)
(* search_and_copy, statement by statement.                                *)
(***************************************************************************)
\* the caller starts the operation (Thread(target=_search_thread).start())
Invoke ==
    /\ pc \in {"idle", "done"}
    /\ runsLeft > 0
    /\ runsLeft' = runsLeft - 1
    /\ pc' = "start"
    /\ run' = run + 1
    /\ prev' = IF pc = "done"
               THEN << [ stats |-> stats, dest |-> dest ] >>
               ELSE prev
    /\ stopSeen' = FALSE
    /\ stopAt' = <<>>
    /\ copyLog' = <<>>
    /\ listFailed' = {}
    /\ subdirs' = <<>> /\ walkPos' = 0 /\ task' = <<>> /\ merged' = {}
    /\ cur' = 0 /\ found_files' = <<>> /\ tokIdx' = 0 /\ idx' = 0
    /\ exc' = FALSE
    /\ UNCHANGED << tree, sourceExists, file_names, setOrder, dest, destDir,
                    stop_requested, stats, raised, faults, auditVars,
                    resolverVars, generatorVars >>

\* lines 50-59
Begin ==
    /\ pc = "start"
    /\ stop_requested' = FALSE
    /\ stats' = ZeroStats
    /\ pc' = "validate"
    /\ UNCHANGED << envVars, dest, destDir, driverLocals, raised, run, faults,
                    stopSeen, stopAt, copyLog, prev,
                    listFailed >>

\* no outer except clause: the exception leaves search_and_copy
Handle_Reraise(etype) ==
    /\ stats' = stats
    /\ pc' = "done"
    /\ raised' = TRUE

\* the outer except clause (lines 190-206): record the error and return
Handle(etype) ==
    /\ stats' = StatsOnGeneralError(stats, etype)
    /\ pc' = "done"
    /\ raised' = raised

\* lines 62-70 and 79 (subdirs = [root])
Validate ==
    /\ pc = "validate"
    /\ \/ /\ ~sourceExists
          /\ pc' = "done"
          /\ UNCHANGED << stats, raised, destDir, faults, subdirs, walkPos >>
       \/ /\ sourceExists
          /\ destDir' = TRUE
          /\ subdirs' = << 0 >>
          /\ walkPos' = 1
          /\ pc' = "enum"
          /\ UNCHANGED << stats, raised, faults >>
       \/ /\ sourceExists
          /\ ~destDir
          /\ faults < MaxFaults
          /\ faults' = faults + 1
          /\ Handle("PermissionError")
          /\ UNCHANGED << destDir, subdirs, walkPos >>
    /\ UNCHANGED << envVars, dest, stop_requested, task, merged, cur,
                    found_files, tokIdx, idx, exc, run, stopSeen, stopAt,
                    copyLog, prev,
                    listFailed >>

\* _get_subdirectories, one iteration of the os.walk loop (lines 221-224)
EnumStep ==
    /\ pc = "enum"
    /\ IF walkPos > Len(WalkOrder) \/ stop_requested
       THEN /\ pc' = "submit"
            /\ UNCHANGED << subdirs, walkPos >>
       ELSE /\ subdirs' = Append(subdirs, WalkOrder[walkPos])
            /\ walkPos' = walkPos + 1
            /\ pc' = pc
    /\ UNCHANGED << envVars, dest, destDir, stop_requested, stats, task,
                    merged, cur, found_files, tokIdx, idx, exc, raised, run,
                    faults, stopSeen, stopAt, copyLog, prev,
                    listFailed >>

\* lines 85-95: one future per entry of subdirs
Submit ==
    /\ pc = "submit"
    /\ found_files' = [name \in SeqToSet(setOrder) |-> <<>>]
    /\ task' = [i \in TaskIds |-> [st |-> "queued", res |-> <<>>]]
    /\ merged' = {}
    /\ pc' = "scan"
    /\ UNCHANGED << envVars, dest, destDir, stop_requested, stats, subdirs,
                    walkPos, cur, tokIdx, idx, exc, raised, run, faults,
                    stopSeen, stopAt, copyLog, prev,
                    listFailed >>

\* a handler of the listing error that returns what another listing gave
ListingFailed_Stale(d) == SearchInDirectory(0)

\* _search_in_directory when os.listdir raises OSError: found is still []
\* at the handler of line 253
ListingFailed(d) == <<>>

\* a worker that counts its directory in the statistics itself
WorkerRun_Counts(i) ==
    /\ i \in DOMAIN task
    /\ task[i].st = "queued"
    /\ task' = [task EXCEPT ![i] = [st |-> "done",
                                    res |-> SearchInDirectory(subdirs[i])]]
    /\ stats' = [stats EXCEPT !.searched = @ + 1]
    /\ UNCHANGED << envVars, dest, destDir, stop_requested, pc, subdirs,
                    walkPos, merged, cur, found_files, tokIdx, idx, exc,
                    raised, run, faults, listFailed, stopSeen, stopAt,
                    copyLog, prev >>

\* a pool worker runs one queued task to completion
WorkerRun(i) ==
    /\ i \in DOMAIN task
    /\ task[i].st = "queued"
    /\ \/ /\ task' = [task EXCEPT ![i] = [st |-> "done",
                                          res |-> SearchInDirectory(subdirs[i])]]
          /\ UNCHANGED << faults, listFailed >>
       \/ \* os.listdir raises OSError: caught, the task returns []
          /\ faults < MaxFaults
          /\ faults' = faults + 1
          /\ task' = [task EXCEPT ![i] = [st |-> "done",
                                          res |-> ListingFailed(subdirs[i])]]
          /\ listFailed' = listFailed \cup {i}
       \/ \* any other exception is stored in the future
          /\ faults < MaxFaults
          /\ faults' = faults + 1
          /\ task' = [task EXCEPT ![i] = [st |-> "raised", res |-> <<>>]]
          /\ UNCHANGED listFailed
    /\ UNCHANGED << envVars, dest, destDir, stop_requested, pc, stats, subdirs,
                    walkPos, merged, cur, found_files, tokIdx, idx, exc,
                    raised, run, stopSeen, stopAt, copyLog, prev >>

\* the scan loop without its poll of the flag
ScanNext_NoPoll ==
    /\ pc = "scan"
    /\ IF merged = TaskIds
       THEN /\ pc' = "join"
            /\ cur' = cur
       ELSE \E i \in TaskIds \ merged :
              /\ task[i].st # "queued"
              /\ pc' = "merge" /\ cur' = i
    /\ UNCHANGED << envVars, dest, destDir, stop_requested, stats, subdirs,
                    walkPos, task, merged, found_files, tokIdx, idx, exc,
                    raised, run, faults, stopSeen, stopAt, copyLog, prev,
                    listFailed >>

\* as_completed yields the next finished future; the flag is polled
\* (lines 97-100)
ScanNext ==
    /\ pc = "scan"
    /\ IF merged = TaskIds
       THEN /\ pc' = "join"
            /\ cur' = cur
       ELSE \E i \in TaskIds \ merged :
              /\ task[i].st # "queued"
              /\ IF stop_requested
                 THEN pc' = "join" /\ cur' = cur
                 ELSE pc' = "merge" /\ cur' = i
    /\ UNCHANGED << envVars, dest, destDir, stop_requested, stats, subdirs,
                    walkPos, task, merged, found_files, tokIdx, idx, exc,
                    raised, run, faults, stopSeen, stopAt, copyLog, prev,
                    listFailed >>

\* a merge that keeps only the matches of the last result
MergeResult_Replace(ff, res) ==
    [ name \in DOMAIN ff |->
        LET Pick(r) == IF r[1] = name THEN << r[2] >> ELSE <<>>
        IN  FlatMap(Pick, res) ]

\* lines 108-109: the results of one future are appended to found_files
MergeResult(ff, res) ==
    [ name \in DOMAIN ff |->
        ff[name] \o
        LET Pick(r) == IF r[1] = name THEN << r[2] >> ELSE <<>>
        IN  FlatMap(Pick, res) ]

\* lines 102-109
ScanMerge ==
    /\ pc = "merge"
    /\ stats' = [stats EXCEPT !.searched = @ + 1]
    /\ merged' = merged \cup {cur}
    /\ IF task[cur].st = "raised"
       THEN /\ exc' = TRUE
            /\ pc' = "join"
            /\ UNCHANGED found_files
       ELSE /\ found_files' = MergeResult(found_files, task[cur].res)
            /\ pc' = "scan"
            /\ UNCHANGED exc
    /\ UNCHANGED << envVars, dest, destDir, stop_requested, subdirs, walkPos,
                    task, cur, tokIdx, idx, raised, run, faults, stopSeen,
                    stopAt, copyLog, prev,
                    listFailed >>

\* a with block that does not wait for its futures (shutdown(wait=False))
Join_NoWait ==
    /\ pc = "join"
    /\ IF exc
       THEN /\ Handle("RuntimeError")
            /\ UNCHANGED << tokIdx, idx >>
       ELSE /\ pc' = "copy"
            /\ tokIdx' = 1
            /\ idx' = 0
            /\ UNCHANGED << stats, raised >>
    /\ task' = task
    /\ cur' = 0
    /\ UNCHANGED << envVars, dest, destDir, stop_requested, subdirs, walkPos,
                    merged, found_files, exc, run, faults, stopSeen, stopAt,
                    copyLog, prev,
                    listFailed >>

\* leaving the with block: executor.shutdown(wait=True)
Join ==
    /\ pc = "join"
    /\ \A i \in TaskIds : task[i].st # "queued"
    /\ IF exc
       THEN /\ Handle("RuntimeError")
            /\ UNCHANGED << tokIdx, idx >>
       ELSE /\ pc' = "copy"
            /\ tokIdx' = 1
            /\ idx' = 0
            /\ UNCHANGED << stats, raised >>
    /\ task' = <<>>
    /\ cur' = 0
    /\ UNCHANGED << envVars, dest, destDir, stop_requested, subdirs, walkPos,
                    merged, found_files, exc, run, faults, stopSeen, stopAt,
                    copyLog, prev,
                    listFailed >>

\* the outer copy loop, one token (lines 112-119 and 156-157)
CopyToken ==
    /\ pc = "copy"
    /\ IF tokIdx > Len(setOrder)
       THEN /\ pc' = "log"
            /\ UNCHANGED << stats, tokIdx, idx >>
       ELSE IF Paths # <<>>
       THEN /\ stats' = StatsOnFound(stats, Token, Paths)
            /\ idx' = 0
            /\ pc' = "cpoll"
            /\ UNCHANGED tokIdx
       ELSE /\ stats' = StatsOnNotFound(stats, Token)
            /\ tokIdx' = tokIdx + 1
            /\ pc' = pc
            /\ UNCHANGED idx
    /\ UNCHANGED << envVars, dest, destDir, stop_requested, subdirs, walkPos,
                    task, merged, cur, found_files, exc, raised, run, faults,
                    stopSeen, stopAt, copyLog, prev,
                    listFailed >>

\* the inner loop's head without its poll of the flag
CopyPoll_NoPoll ==
    /\ pc = "cpoll"
    /\ IF idx >= Len(Paths)
       THEN /\ tokIdx' = tokIdx + 1
            /\ pc' = "copy"
       ELSE /\ pc' = "cfile"
            /\ UNCHANGED tokIdx
    /\ UNCHANGED << envVars, dest, destDir, stop_requested, stats, subdirs,
                    walkPos, task, merged, cur, found_files, idx, exc, raised,
                    run, faults, stopSeen, stopAt, copyLog, prev,
                    listFailed >>

\* the inner loop's head and its poll of the flag (lines 121-123)
CopyPoll ==
    /\ pc = "cpoll"
    /\ IF idx >= Len(Paths) \/ stop_requested
       THEN /\ tokIdx' = tokIdx + 1
            /\ pc' = "copy"
       ELSE /\ pc' = "cfile"
            /\ UNCHANGED tokIdx
    /\ UNCHANGED << envVars, dest, destDir, stop_requested, stats, subdirs,
                    walkPos, task, merged, cur, found_files, idx, exc, raised,
                    run, faults, stopSeen, stopAt, copyLog, prev,
                    listFailed >>

\* shutil.copy2(src_path, dest_file): creates or replaces dest_file
Copy2(d, src_path, dest_file) == (dest_file :> ContentOf(src_path)) @@ d

\* one file copied or failed (lines 125-155)
CopyFile ==
    /\ pc = "cfile"
    /\ LET src_path  == Paths[idx + 1]
           dest_file == DestFile(src_path[2], idx)
           entry(ok) == [ token |-> Token, idx |-> idx, src |-> src_path,
                          dst |-> dest_file, ok |-> ok ]
       IN  \/ /\ dest' = Copy2(dest, src_path, dest_file)
              /\ stats' = StatsOnCopied(stats)
              /\ copyLog' = Append(copyLog, entry(TRUE))
              /\ UNCHANGED faults
           \/ /\ faults < MaxFaults
              /\ faults' = faults + 1
              /\ \E etype \in CopyErrors :
                    stats' = StatsOnCopyError(stats, Token, src_path,
                                              dest_file, etype)
              /\ copyLog' = Append(copyLog, entry(FALSE))
              /\ UNCHANGED dest
    /\ idx' = idx + 1
    /\ pc' = "cpoll"
    /\ UNCHANGED << envVars, destDir, stop_requested, subdirs, walkPos, task,
                    merged, cur, found_files, tokIdx, exc, raised, run,
                    stopSeen, stopAt, prev,
                    listFailed >>

\* log_operation (lines 160-169)
LogOperation ==
    /\ pc = "log"
    /\ \/ /\ pc' = "db"
          /\ UNCHANGED << stats, raised, faults >>
       \/ /\ faults < MaxFaults
          /\ faults' = faults + 1
          /\ Handle("OSError")
    /\ UNCHANGED << envVars, dest, destDir, stop_requested, driverLocals, run,
                    stopSeen, stopAt, copyLog, prev,
                    listFailed >>

\* db.save_file_search inside its own try (lines 172-188)
DbSave ==
    /\ pc = "db"
    /\ \/ UNCHANGED faults
       \/ /\ faults < MaxFaults
          /\ faults' = faults + 1
    /\ pc' = "done"
    /\ UNCHANGED << envVars, dest, destDir, stop_requested, stats,
                    driverLocals, raised, run, stopSeen, stopAt, copyLog,
                    prev,
                    listFailed >>

Next ==
    \/ Stop
    \/ Invoke
    \/ Begin
    \/ Validate
    \/ EnumStep
    \/ Submit
    \/ \E i \in 1..(MaxSubdirs + 3) : WorkerRun(i)
    \/ ScanNext
    \/ ScanMerge
    \/ Join
    \/ CopyToken
    \/ CopyPoll
    \/ CopyFile
    \/ LogOperation
    \/ DbSave

\* search_and_copy not invoked, on no tree
SearchIdle ==
    /\ sourceExists = FALSE
    /\ tree = EmptyTree
    /\ file_names = <<>>
    /\ setOrder = <<>>
    /\ dest = <<>>
    /\ destDir = FALSE
    /\ stop_requested = FALSE
    /\ pc = "idle"
    /\ stats = ZeroStats
    /\ subdirs = <<>>
    /\ walkPos = 0
    /\ task = <<>>
    /\ merged = {}
    /\ cur = 0
    /\ found_files = <<>>
    /\ tokIdx = 0
    /\ idx = 0
    /\ exc = FALSE
    /\ raised = FALSE
    /\ run = 0
    /\ runsLeft = 0
    /\ faults = 0
    /\ stopSeen = FALSE
    /\ stopAt = <<>>
    /\ copyLog = <<>>
    /\ prev = <<>>
    /\ listFailed = {}

searchVars == << tree, sourceExists, file_names, setOrder, dest, destDir,
                 stop_requested, pc, stats, subdirs, walkPos, task, merged,
                 cur, found_files, tokIdx, idx, exc, raised, run, runsLeft,
                 faults, stopSeen, stopAt, copyLog, prev,
                    listFailed >>

\* one invocation, with cancellation and environment faults
Init == InitWith(1, 0)

Spec == Init /\ [][Next]_vars

\* MaxRuns invocations in a row, never cancelled, in a fault-free environment
InitRerun == InitWith(MaxRuns, MaxFaults)

NextRerun ==
    \/ Invoke
    \/ Begin
    \/ Validate
    \/ EnumStep
    \/ Submit
    \/ \E i \in 1..(MaxSubdirs + 3) : WorkerRun(i)
    \/ ScanNext
    \/ ScanMerge
    \/ Join
    \/ CopyToken
    \/ CopyPoll
    \/ CopyFile
    \/ LogOperation
    \/ DbSave

SpecRerun == InitRerun /\ [][NextRerun]_vars


(***************************************************************************)
(* Vocabulary of the properties of search_and_copy.                        *)
(***************************************************************************)
\* the physical files of the tree whose name starts with the token
FilesIn(d) == {d} \X SeqToSet(tree.files[d])

PhysicalMatches(t) ==
    { p \in UNION { FilesIn(d) : d \in 0..tree.n } : StartsWith(p[2], t) }

Tokens == SeqToSet(setOrder)

\* the outer copy loop ran to its end
CopyLoopDone == pc \in {"log", "db", "done"} /\ tokIdx > Len(setOrder)

\* the run ended in the handler of the outer try
GeneralError(s) ==
    \E i \in 1..Len(s.error_details) : s.error_details[i].search_name = "N/A"

\* all (token, index) pairs of the collected matches
Collected ==
    UNION { {t} \X (0..(Len(found_files[t]) - 1)) : t \in DOMAIN found_files }

Attempted == { <<copyLog[i].token, copyLog[i].idx>> : i \in 1..Len(copyLog) }

StatsFields ==
    { "searched", "found", "copied", "errors", "not_found", "error_details",
      "duplicate_files" }

(***************************************************************************)
(* Claims about search_and_copy.                                           *)
(***************************************************************************)

\* C2: in an uncancelled run the matches collected for a token are exactly
\* the physical files under the root whose name starts with the token, each
\* counted once, and a token with N > 1 such files has duplicate_files = N.
C2_EachFileCountedOnce ==
    (pc = "done" /\ CopyLoopDone /\ ~stopSeen /\ faults = 0) =>
        \A t \in Tokens :
            LET N == Cardinality(PhysicalMatches(t))
            IN  /\ Len(found_files[t]) = N
                /\ N > 1 => /\ t \in DOMAIN stats.duplicate_files
                            /\ stats.duplicate_files[t] = N

\* every copy attempt is the idx-th match of its token, in scan order
LogFollowsScanOrder ==
    \A j \in 1..Len(copyLog) :
        LET e == copyLog[j]
        IN  /\ e.idx < Len(found_files[e.token])
            /\ e.src = found_files[e.token][e.idx + 1]
            /\ e.idx > 0 => /\ j > 1
                            /\ copyLog[j - 1].token = e.token
                            /\ copyLog[j - 1].idx = e.idx - 1

\* the name a copy is written under, every file name of the model ending
\* in a four-character extension
SuffixedName(name, tag, k) ==
    SubSeq(name, 1, Len(name) - 4) \o tag \o ToString(k)
        \o SubSeq(name, Len(name) - 3, Len(name))

NamedWithTag(tag) ==
    \A j \in 1..Len(copyLog) :
        LET e == copyLog[j]
        IN  e.dst = IF e.idx = 0 THEN e.src[2]
                    ELSE SuffixedName(e.src[2], tag, e.idx)

\* C3 as stated: the first match of a token is copied under its own name and
\* the K-th subsequent match under its name with _copyK before the extension.
C3_CopySuffix == LogFollowsScanOrder /\ NamedWithTag("_copy")

\* C3 amended: the suffix the code inserts is _copiaK.
C3_CopiaSuffix == LogFollowsScanOrder /\ NamedWithTag("_copia")

C3_Witness ==
    \E j \in 1..Len(copyLog) :
        /\ copyLog[j].ok
        /\ copyLog[j].idx = 2
        /\ copyLog[j].dst \in DOMAIN dest

\* what a cancelled scan must leave behind, the driver having merged
\* `count` results: no exception, searched = count, and in not_found only
\* tokens without a match in a merged directory
CancelledScanResult(count) ==
    /\ ~raised
    /\ stats.searched = count
    /\ Cardinality(merged) = count
    /\ \A j \in 1..Len(stats.not_found) :
          LET t == stats.not_found[j]
          IN  /\ found_files[t] = <<>>
              /\ faults = 0 =>
                    \A i \in merged : PhysicalMatches(t) \cap FilesIn(subdirs[i]) = {}

\* C4 as stated: cancellation signalled after k results were merged (k less
\* than the total) makes search_and_copy return with searched = k.
C4_SearchedEqualsK ==
    (pc = "done" /\ stopAt # <<>> /\ stopAt[1].k < Len(subdirs)) =>
        CancelledScanResult(stopAt[1].k)

\* C4 amended: searched = k when the flag is raised while the driver waits
\* for the next result; when it is raised after the driver passed its poll
\* and before that result is merged, the result is merged too and
\* searched = k + 1.
C4_SearchedKOrNext ==
    (pc = "done" /\ stopAt # <<>> /\ stopAt[1].k < Len(subdirs)) =>
        CancelledScanResult(IF stopAt[1].pc = "merge"
                            THEN stopAt[1].k + 1 ELSE stopAt[1].k)

C4_Witness ==
    /\ pc = "done"
    /\ stopAt # <<>>
    /\ stopAt[1].pc = "scan"
    /\ stopAt[1].k = 1
    /\ stats.searched = 1
    /\ Len(subdirs) = 3
    /\ stats.found > 0
    /\ stats.not_found # <<>>

\* C5: a stop() called at any point after the invocation is never lost: at
\* every later polling point the driver leaves its loop instead of merging
\* a further result or copying a further file.
C5_StopNeverLost ==
    [][ (stopSeen /\ pc \in {"scan", "cpoll"}) => pc' \notin {"merge", "cfile"} ]_vars

\* C6: a failed copy adds one to errors and one record to error_details
\* (source, destination, error type), leaves copied and the destination
\* alone and goes on with the next file; and unless cancellation was
\* requested every collected match of every token is attempted.
C6_CopyFailureContinues ==
    /\ [][ (pc = "cfile" /\ stats'.errors # stats.errors) =>
            /\ stats'.errors = stats.errors + 1
            /\ Len(stats'.error_details) = Len(stats.error_details) + 1
            /\ LET r == stats'.error_details[Len(stats'.error_details)]
               IN  /\ r.source_path = found_files[setOrder[tokIdx]][idx + 1]
                   /\ r.destination_path = copyLog'[Len(copyLog')].dst
                   /\ r.search_name = setOrder[tokIdx]
                   /\ r.error_type \in CopyErrors
            /\ SubSeq(stats'.error_details, 1, Len(stats.error_details))
                   = stats.error_details
            /\ stats'.copied = stats.copied
            /\ dest' = dest
            /\ pc' = "cpoll" /\ idx' = idx + 1 /\ tokIdx' = tokIdx ]_vars
    /\ [] ((CopyLoopDone /\ ~stop_requested) => Attempted = Collected)

C6_Witness ==
    /\ pc = "done"
    /\ \E i, j \in 1..Len(copyLog) :
          /\ i < j
          /\ ~copyLog[i].ok
          /\ copyLog[j].ok
          /\ copyLog[j].token = copyLog[i].token
    /\ stats.errors = 1
    /\ stats.copied = Len(copyLog) - 1

\* C7: search_and_copy returns the complete statistics dictionary and lets
\* no exception out, whatever fails; it cannot get stuck; and a failed copy
\* or a failed database save leaves the other copies performed and counted.
C7_AlwaysReturnsStats ==
    /\ ~raised
    /\ DOMAIN stats = StatsFields
    /\ pc \notin {"idle", "done"} => ENABLED NextRerun
    /\ (CopyLoopDone /\ ~stop_requested) =>
          /\ stats.copied = Cardinality({ j \in 1..Len(copyLog) : copyLog[j].ok })
          /\ stats.copied + stats.errors >= stats.found
          /\ \A j \in 1..Len(copyLog) :
                copyLog[j].ok => copyLog[j].dst \in DOMAIN dest

C7_Witness ==
    /\ pc = "done"
    /\ GeneralError(stats)
    /\ stats.copied > 0
    /\ stats.errors = 1

\* C8: a second run against the unchanged tree and destination copies
\* nothing (copied = 0) and leaves the destination as it was.
C8_SecondRunCopiesNothing ==
    (run = 2 /\ pc = "done") =>
        /\ stats.copied = 0
        /\ dest = prev[1].dest

\* C9: every successful copy creates a destination file that was not there
\* immediately before it, so that the destination grows by one file per
\* copy counted.
C9_CopyNeverOverwrites ==
    [][ stats'.copied = stats.copied + 1 =>
            /\ DOMAIN dest' # DOMAIN dest
            /\ Cardinality(DOMAIN dest') = Cardinality(DOMAIN dest) + 1 ]_vars

(***************************************************************************)
(* FileAuditor (file_auditor.py).                                          *)
(***************************************************************************)
\* lines of reference text the model pastes together
MaxLines == 2
\* files in the audited folder
MaxFiles == 2

RefLines ==
    { "OC001\t100045", "OC002\t100046", "OC\tSUMINISTRO",
      "OC003  10-00-47  x  y", "sn\tabc", "" }

RefTexts ==
    { JoinWith("\n", ls) : ls \in UNION { [1..n -> RefLines] : n \in 0..MaxLines } }

FolderFileNames ==
    { "100045_report.pdf", "100046.PDF", "100045_v2.pdf", "informe.pdf",
      "100047.txt" }

\* the files os.walk visits, in the order it visits them
Folders ==
    { f \in UNION { [1..n -> FolderFileNames] : n \in 0..MaxFiles } :
        \A i, j \in 1..Len(f) : f[i] = f[j] => i = j }

\* file_pattern values: the default and a pattern capturing word characters
FilePatterns == { "(\\d+)", "(\\w+)" }

\* headers of parse_reference_list (line 45)
Headers == { "OC", "ORDEN", "N° DE SUMINISTRO", "SUMINISTRO" }

RECURSIVE FoldLeft(_, _, _)
\* acc = Op(acc, x) for x in seq
FoldLeft(Op(_, _), acc, seq) ==
    IF seq = <<>> THEN acc ELSE FoldLeft(Op, Op(acc, Head(seq)), Tail(seq))

\* the body of the for loop of parse_reference_list (lines 57-78)
ParseLine(acc, line) ==
    IF Strip(line) = "" THEN acc
    ELSE LET fields == SplitFields(Strip(line), "")
         IN  IF Len(fields) >= 2
             THEN LET oc_raw == Strip(fields[1])
                      supply_raw == Strip(fields[2])
                      rest == IF Len(fields) > 2
                              THEN JoinWith(" ", SubSeq(fields, 3, Len(fields)))
                              ELSE ""
                      supply_num == KeepDigits(supply_raw)
                  IN  IF supply_num # ""
                      THEN [ numbers |-> acc.numbers \cup {supply_num},
                             complete_data |->
                                 (supply_num :> [ oc |-> oc_raw,
                                                  supply |-> supply_raw,
                                                  rest |-> rest ])
                                 @@ acc.complete_data ]
                      ELSE acc
             ELSE acc

\* parse_reference_list (lines 42-80)
ParseReferenceList(text) ==
    LET lines == SplitChar(Strip(text), "\n", "")
        first_line == SplitWords(Upper(lines[1]), "")
        data_lines == IF \E h \in Headers : h \in SeqToSet(first_line)
                      THEN Tail(lines) ELSE lines
    IN  FoldLeft(ParseLine, [numbers |-> {}, complete_data |-> <<>>], data_lines)

\* re.search(pattern, filename) for the patterns of the model
PatternSearch(pattern, filename) ==
    IF pattern = "(\\d+)" THEN FirstRun(IsDigit, filename)
    ELSE FirstRun(IsWord, filename)

\* scan_folder (lines 96-113)
ScanFolder(files, pattern) ==
    LET PerFile(acc, filename) ==
            IF EndsWith(Lower(filename), ".pdf")
            THEN LET match == PatternSearch(pattern, filename)
                 IN  IF match # <<>>
                     THEN LET file_id == KeepDigits(match[1])
                          IN  [ found |-> acc.found \cup {file_id},
                                file_map |-> (file_id :> filename) @@ acc.file_map ]
                     ELSE acc
            ELSE acc
    IN  FoldLeft(PerFile, [found |-> {}, file_map |-> <<>>], files)

\* the comparison with missing and extra exchanged
AuditMissing_Swapped(reference_numbers, found_numbers) ==
    found_numbers \ reference_numbers

\* line 150
AuditMissing(reference_numbers, found_numbers) ==
    reference_numbers \ found_numbers

\* line 151
AuditExtra(reference_numbers, found_numbers) ==
    found_numbers \ reference_numbers

\* audit (lines 133-182): the dictionary returned
AuditResult(files, text, pattern) ==
    LET ref == ParseReferenceList(text)
    IN  IF ref.numbers = {}
        THEN [ reference_count |-> 0, missing |-> <<>>, extra |-> <<>>,
               found_count |-> 0, status |-> "error",
               message |-> "Lista de referencia vacía" ]
        ELSE LET scan == ScanFolder(files, pattern)
                 missing == AuditMissing(ref.numbers, scan.found)
                 extra == AuditExtra(ref.numbers, scan.found)
                 sm == Sorted(missing)
                 se == Sorted(extra)
             IN  [ reference_count |-> Cardinality(ref.numbers),
                   found_count |-> Cardinality(scan.found),
                   missing |-> [ i \in 1..Len(sm) |->
                                   [ number |-> sm[i],
                                     oc |-> ref.complete_data[sm[i]].oc,
                                     supply |-> ref.complete_data[sm[i]].supply,
                                     rest |-> ref.complete_data[sm[i]].rest ] ],
                   extra |-> [ i \in 1..Len(se) |->
                                   [ number |-> se[i],
                                     filename |-> scan.file_map[se[i]] ] ],
                   missing_count |-> Cardinality(missing),
                   extra_count |-> Cardinality(extra),
                   status |-> IF missing = {} /\ extra = {}
                              THEN "complete" ELSE "discrepancies" ]

\* an audit that writes its row before looking at the result
Audit_SavesEveryResult ==
    /\ a_pc = "idle"
    /\ a_result' = << AuditResult(a_files, a_text, a_pattern) >>
    /\ a_scanned' = (ParseReferenceList(a_text).numbers # {})
    /\ a_db' = Append(a_db, [ reference_count |-> a_result'[1].reference_count,
                              found_count |-> a_result'[1].found_count,
                              status |-> a_result'[1].status ])
    /\ a_pc' = "done"
    /\ UNCHANGED << a_text, a_files, a_pattern, searchVars, resolverVars,
                    generatorVars >>

\* audit(): the result is returned, and a row is saved unless the result is
\* an error or save_file_audit fails (lines 196-207); scan_folder is called
\* only past the return of line 137
Audit ==
    /\ a_pc = "idle"
    /\ a_result' = << AuditResult(a_files, a_text, a_pattern) >>
    /\ a_scanned' = (ParseReferenceList(a_text).numbers # {})
    /\ \/ /\ a_result'[1].status # "error"
          /\ a_db' = Append(a_db, [ reference_count |-> a_result'[1].reference_count,
                                    found_count |-> a_result'[1].found_count,
                                    missing_count |-> a_result'[1].missing_count,
                                    extra_count |-> a_result'[1].extra_count,
                                    status |-> a_result'[1].status ])
       \/ a_db' = a_db
    /\ a_pc' = "done"
    /\ UNCHANGED << a_text, a_files, a_pattern, searchVars, resolverVars,
                    generatorVars >>

InitAudit ==
    /\ SearchIdle
    /\ ResolverIdle
    /\ GeneratorIdle
    /\ a_pc = "idle"
    /\ a_text \in RefTexts
    /\ a_files \in Folders
    /\ a_pattern \in FilePatterns
    /\ a_result = <<>>
    /\ a_db = <<>>
    /\ a_scanned = FALSE

NextAudit == Audit

SpecAudit == InitAudit /\ [][NextAudit]_vars

(***************************************************************************)
(* Claims about audit.                                                     *)
(***************************************************************************)
NumbersOf(list) == { list[i].number : i \in 1..Len(list) }

\* R: the token set parse_reference_list returns for each reference text
\* (merged with the empty function, which tabulates it once)
ReferenceTokens ==
    [ t \in RefTexts |-> ParseReferenceList(t).numbers ] @@ << >>

\* F: the token set scan_folder returns for each folder and pattern
FoundTokens ==
    [ q \in Folders \X FilePatterns |-> ScanFolder(q[1], q[2]).found ] @@ << >>

\* C1: with R the tokens of parse_reference_list and F those of scan_folder,
\* the missing list holds exactly R \ F and the extra list exactly F \ R:
\* missing and matched make up R, extra and matched make up F, nothing is
\* both missing and extra; references 100045 and 100046 with only
\* 100045_report.pdf in the folder give missing = [100046] and extra = [].
C1_AuditIsSetDifference ==
    (a_pc = "done" /\ a_result[1].status # "error") =>
        LET R == ReferenceTokens[a_text]
            F == FoundTokens[a_files, a_pattern]
            missing == NumbersOf(a_result[1].missing)
            extra == NumbersOf(a_result[1].extra)
            matched == R \cap F
        IN  /\ \A t \in missing : t \in R /\ t \notin F
            /\ \A t \in extra : t \in F /\ t \notin R
            /\ missing \cup matched = R
            /\ extra \cup matched = F
            /\ missing \cap extra = {}
            /\ Len(a_result[1].missing) = Cardinality(missing)
            /\ Len(a_result[1].extra) = Cardinality(extra)
            /\ ( /\ a_text = "OC001\t100045\nOC002\t100046"
                 /\ a_files = << "100045_report.pdf" >>
                 /\ a_pattern = "(\\d+)" )
               => /\ Len(a_result[1].missing) = 1
                  /\ a_result[1].missing[1].number = "100046"
                  /\ a_result[1].extra = <<>>

C1_Witness ==
    /\ a_pc = "done"
    /\ a_text = "OC001\t100045\nOC002\t100046"
    /\ a_files = << "100045_report.pdf" >>
    /\ a_pattern = "(\\d+)"
    /\ a_result[1].status = "discrepancies"
    /\ a_result[1].reference_count = 2

(***************************************************************************)
(* QRReader: the duplicate resolver and the move that follows it.          *)
(***************************************************************************)
\* files handed to process_file in a row
MaxCalls == 2
\* the safety limit of _get_unique_path
RenameLimit == 1000

NewContent == "new"

Policies == { "renombrar", "sobrescribir", "saltar", "comparar", "overwrite" }

\* names process_file builds from the QR content and the extension
DestNames == { "100045.pdf", "OC.001.png" }

\* hashlib.md5(...).hexdigest() of the contents of the model
Md5Table ==
    [ c \in { OldContent, NewContent } |->
        IF c = OldContent THEN "149603e6c03516362a8da23f624db945"
        ELSE "22af645d1859cb5ca6da0c484f1f37ea" ]

\* a digest that never reads the file: the MD5 of the empty input
CalculateMd5_OfNothing(content) == "d41d8cd98f00b204e9800998ecf8427e"

CalculateMd5(content) == Md5Table[content]

\* parent / f"{stem}_{counter}{suffix}"
Candidate(base, counter) ==
    PathStem(base) \o "_" \o ToString(counter) \o PathSuffix(base)

\* output folders process_file may find: empty, the name taken, the first
\* candidates taken or free, and every candidate up to the limit taken
OutputFolders(base) ==
    LET With(names) == [ n \in names |-> OldContent ]
    IN  { With({}),
          With({ base }),
          With({ Candidate(base, 1) }),
          With({ base, Candidate(base, 1) }),
          With({ base, Candidate(base, 2) }),
          With({ base } \cup { Candidate(base, k) : k \in 1..RenameLimit }) }

Exists(dir, name) == name \in DOMAIN dir

\* an unlink that leaves the file where it is
Unlink_Nothing(dir, name) == dir

\* Path.unlink
Unlink(dir, name) == [ n \in DOMAIN dir \ { name } |-> dir[n] ]

\* shutil.move of a file holding content to name
MoveTo(dir, name, content) ==
    [ n \in DOMAIN dir \cup { name } |-> IF n = name THEN content ELSE dir[n] ]

\* name of the k-th file handed to process_file
SrcName(k) == "scan" \o ToString(k) \o ".pdf"

\* error folders process_file may find: empty, or the name of the first
\* file taken
ErrorFolders ==
    { [ n \in {} |-> OldContent ], [ n \in { SrcName(1) } |-> OldContent ] }

\* the result dictionary as process_file initialises it (lines 278-284);
\* None is "" for action and <<>> for final_path
EmptyResult == [ success |-> FALSE, final_path |-> <<>>, action |-> "" ]

\* _handle_duplicate(dest_path, file_path, "saltar")
HandleDuplicateSaltar(dir, name) ==
    IF ~Exists(dir, name) THEN << name >> ELSE <<>>

\* a loop body that files a result without action under saltados
DirectoryStats_NoneSkipped(s, action) ==
    LET t == [ s EXCEPT !.procesados = @ + 1 ]
    IN  IF action = "renamed_and_moved" THEN [ t EXCEPT !.exitosos = @ + 1 ]
        ELSE IF action = "moved_to_error" THEN [ t EXCEPT !.sin_qr = @ + 1 ]
        ELSE [ t EXCEPT !.saltados = @ + 1 ]

\* process_directory, lines 571-580: the result of one file is counted
\* (action "" stands for None)
DirectoryStats(s, action) ==
    LET t == [ s EXCEPT !.procesados = @ + 1 ]
    IN  IF action = "renamed_and_moved" THEN [ t EXCEPT !.exitosos = @ + 1 ]
        ELSE IF action = "moved_to_error" THEN [ t EXCEPT !.sin_qr = @ + 1 ]
        ELSE IF action = "skipped" THEN [ t EXCEPT !.saltados = @ + 1 ]
        ELSE [ t EXCEPT !.fallidos = @ + 1 ]

\* process_file of a file in which no QR code is read (lines 298-311): the
\* resolver is called with "saltar" and the file is moved to str(dest_path),
\* which is the relative path "None" when the resolver returned None; that
\* move succeeds or raises, and the handler of line 347 returns the result
\* with action None; process_directory then counts the result
NoQrFile ==
    /\ r_pc = "idle"
    /\ r_calls < MaxCalls
    /\ r_calls' = r_calls + 1
    /\ r_src' \in { OldContent, NewContent }
    /\ LET name == SrcName(r_calls + 1)
           dest_path == HandleDuplicateSaltar(r_errdir, name)
       IN  IF dest_path # <<>>
           THEN /\ r_errdir' = MoveTo(r_errdir, dest_path[1], r_src')
                /\ r_loc' = << "error", dest_path[1] >>
                /\ r_result' = << [ EmptyResult EXCEPT
                                      !.final_path = << "error", dest_path[1] >>,
                                      !.action = "moved_to_error" ] >>
           ELSE /\ r_errdir' = r_errdir
                /\ \/ /\ r_loc' = << ".", "None" >>
                      /\ r_result' = << [ EmptyResult EXCEPT
                                            !.final_path = << ".", "None" >>,
                                            !.action = "moved_to_error" ] >>
                   \/ /\ r_loc' = << "input", name >>
                      /\ r_result' = << EmptyResult >>
    /\ r_stats' = DirectoryStats(r_stats, r_result'[1].action)
    /\ UNCHANGED << r_pc, r_dir, r_policy, r_dest, r_ret, r_pre, r_counter,
                    searchVars, auditVars,
                    generatorVars >>

\* process_file up to the call of _handle_duplicate
ProcessFile ==
    /\ r_pc = "idle"
    /\ r_calls < MaxCalls
    /\ r_calls' = r_calls + 1
    /\ r_src' \in { OldContent, NewContent }
    /\ r_policy' \in Policies
    /\ r_pre' = r_dir
    /\ r_ret' = <<>>
    /\ r_counter' = 0
    /\ r_loc' = << "input", SrcName(r_calls + 1) >>
    /\ r_result' = <<>>
    /\ r_pc' = "check"
    /\ UNCHANGED << r_dir, r_dest, r_errdir, r_stats, searchVars, auditVars,
                    generatorVars >>

\* _handle_duplicate down to its return or to the call of _get_unique_path
HandleDuplicate ==
    /\ r_pc = "check"
    /\ IF ~Exists(r_dir, r_dest)
       THEN r_ret' = << r_dest >> /\ r_pc' = "ret" /\ r_dir' = r_dir
       ELSE IF r_policy = "sobrescribir"
       THEN r_dir' = Unlink(r_dir, r_dest) /\ r_ret' = << r_dest >>
            /\ r_pc' = "ret"
       ELSE IF r_policy = "saltar"
       THEN r_ret' = <<>> /\ r_pc' = "ret" /\ r_dir' = r_dir
       ELSE IF r_policy = "comparar"
       THEN IF CalculateMd5(r_src) = CalculateMd5(r_dir[r_dest])
            THEN r_ret' = <<>> /\ r_pc' = "ret" /\ r_dir' = r_dir
            ELSE r_pc' = "unique" /\ UNCHANGED << r_ret, r_dir >>
       ELSE r_pc' = "unique" /\ UNCHANGED << r_ret, r_dir >>
    /\ UNCHANGED << r_src, r_policy, r_dest, r_pre, r_counter, r_calls,
                    r_errdir, r_loc, r_result, r_stats, searchVars, auditVars,
                    generatorVars >>

\* _get_unique_path starting its counter at 2
GetUniquePath_FromTwo ==
    /\ r_pc = "unique"
    /\ IF ~Exists(r_dir, r_dest)
       THEN r_ret' = << r_dest >> /\ r_pc' = "ret" /\ r_counter' = r_counter
       ELSE r_counter' = 2 /\ r_pc' = "probe" /\ r_ret' = r_ret
    /\ UNCHANGED << r_dir, r_src, r_policy, r_dest, r_pre, r_calls,
                    r_errdir, r_loc, r_result, r_stats, searchVars, auditVars,
                    generatorVars >>

\* _get_unique_path before its loop
GetUniquePath ==
    /\ r_pc = "unique"
    /\ IF ~Exists(r_dir, r_dest)
       THEN r_ret' = << r_dest >> /\ r_pc' = "ret" /\ r_counter' = r_counter
       ELSE r_counter' = 1 /\ r_pc' = "probe" /\ r_ret' = r_ret
    /\ UNCHANGED << r_dir, r_src, r_policy, r_dest, r_pre, r_calls,
                    r_errdir, r_loc, r_result, r_stats, searchVars, auditVars,
                    generatorVars >>

\* a loop body that hands out the candidate without looking at the folder
ProbeCandidate_NoExistsCheck ==
    /\ r_pc = "probe"
    /\ r_ret' = << Candidate(r_dest, r_counter) >>
    /\ r_pc' = "ret"
    /\ UNCHANGED << r_counter, r_dir, r_src, r_policy, r_dest, r_pre, r_calls,
                    r_errdir, r_loc, r_result, r_stats, searchVars, auditVars,
                    generatorVars >>

\* one turn of the loop of _get_unique_path
ProbeCandidate ==
    /\ r_pc = "probe"
    /\ LET new_path == Candidate(r_dest, r_counter)
       IN  IF ~Exists(r_dir, new_path)
           THEN r_ret' = << new_path >> /\ r_pc' = "ret"
                /\ r_counter' = r_counter
           ELSE /\ r_counter' = r_counter + 1
                /\ r_pc' = IF r_counter + 1 > RenameLimit THEN "raised"
                           ELSE "probe"
                /\ r_ret' = r_ret
    /\ UNCHANGED << r_dir, r_src, r_policy, r_dest, r_pre, r_calls,
                    r_errdir, r_loc, r_result, r_stats, searchVars, auditVars,
                    generatorVars >>

\* process_file after the resolver: the move, the skip, or the handler of
\* the exception
FinishFile ==
    /\ r_pc \in { "ret", "raised" }
    /\ IF r_pc = "ret" /\ r_ret # <<>>
       THEN /\ r_dir' = MoveTo(r_dir, r_ret[1], r_src)
            /\ r_loc' = << "output", r_ret[1] >>
            /\ r_result' = << [ success |-> TRUE,
                                final_path |-> << "output", r_ret[1] >>,
                                action |-> "renamed_and_moved" ] >>
       ELSE /\ r_dir' = r_dir
            /\ r_loc' = r_loc
            /\ r_result' = << [ EmptyResult EXCEPT
                                  !.action = IF r_pc = "ret" THEN "skipped"
                                             ELSE "" ] >>
    /\ r_pc' = "idle"
    /\ r_stats' = DirectoryStats(r_stats, r_result'[1].action)
    /\ UNCHANGED << r_src, r_policy, r_dest, r_ret, r_pre, r_counter, r_calls,
                    r_errdir, searchVars, auditVars,
                    generatorVars >>

InitResolve ==
    /\ SearchIdle
    /\ AuditIdle
    /\ GeneratorIdle
    /\ r_pc = "idle"
    /\ r_dest \in DestNames
    /\ r_dir \in OutputFolders(r_dest)
    /\ r_src = ""
    /\ r_policy = ""
    /\ r_ret = <<>>
    /\ r_pre = <<>>
    /\ r_counter = 0
    /\ r_errdir \in ErrorFolders
    /\ r_loc = <<>>
    /\ r_result = <<>>
    /\ r_calls = 0
    /\ r_stats = ZeroDirectoryStats

NextResolve ==
    \/ NoQrFile
    \/ ProcessFile
    \/ HandleDuplicate
    \/ GetUniquePath
    \/ ProbeCandidate
    \/ FinishFile

SpecResolve == InitResolve /\ [][NextResolve]_vars

(***************************************************************************)
(* Claims about the duplicate resolver.                                    *)
(***************************************************************************)
\* between the call of _handle_duplicate and its return or raise
InResolver == r_pc \in { "check", "unique", "probe", "ret", "raised" }

\* C10: under every policy other than "sobrescribir" (skip, rename, compare
\* and any other string) the resolver leaves the folder as it was when it
\* was called, so the file at the destination path is neither deleted nor
\* modified; a path it returns does not exist in the folder when it
\* returns; and the only change the resolver ever makes to the folder is
\* the removal of the destination file under "sobrescribir".
C10_OnlyOverwriteDestroys ==
    /\ (InResolver /\ r_policy # "sobrescribir") => r_dir = r_pre
    /\ (InResolver /\ r_dir # r_pre) =>
          /\ r_policy = "sobrescribir"
          /\ Exists(r_pre, r_dest)
          /\ r_dir = Unlink(r_pre, r_dest)
    /\ (r_pc = "ret" /\ r_ret # <<>>) => ~Exists(r_dir, r_ret[1])

C10_Witness ==
    /\ r_pc = "ret"
    /\ r_policy = "comparar"
    /\ Exists(r_pre, r_dest)
    /\ Exists(r_pre, Candidate(r_dest, 1))
    /\ r_ret = << Candidate(r_dest, 2) >>
    /\ r_dir = r_pre

\* the resolver was called with "comparar" on a destination that exists,
\* and has returned or raised
ComparedExisting ==
    /\ r_pc \in { "ret", "raised" }
    /\ r_policy = "comparar"
    /\ Exists(r_pre, r_dest)

\* the step of process_file that follows a skip: nothing moved or changed
SkipStep ==
    /\ r_dir' = r_pre
    /\ r_loc' = r_loc
    /\ r_result'[1].action = "skipped"

\* the step of process_file that follows a rename: the file is moved to the
\* returned path, and the destination file is still there with its content
RenamedStep ==
    /\ r_ret # <<>>
    /\ r_ret[1] # r_dest
    /\ DOMAIN r_dir' = DOMAIN r_pre \cup { r_ret[1] }
    /\ \A n \in DOMAIN r_pre : r_dir'[n] = r_pre[n]
    /\ r_dir'[r_ret[1]] = r_src
    /\ r_loc' = << "output", r_ret[1] >>

\* C11 as stated: with "comparar" and an existing destination, identical
\* contents make the resolver return None and nothing is moved or changed;
\* different contents make it return a renamed path, and after the move
\* both files exist with their own contents.
C11_CompareSkipsOrRenames ==
    /\ [] (ComparedExisting =>
             /\ r_pc = "ret"
             /\ (r_ret = <<>>) <=> (r_src = r_pre[r_dest]))
    /\ [][ ComparedExisting =>
             IF r_src = r_pre[r_dest] THEN SkipStep ELSE RenamedStep ]_vars

\* C11 amended: different contents give a renamed path unless every
\* candidate up to the limit of _get_unique_path exists; then the resolver
\* raises, and nothing is moved or changed.
C11_CompareSkipsRenamesOrRaises ==
    /\ [] (ComparedExisting =>
             /\ (r_pc = "ret" /\ r_ret = <<>>) <=>
                    (CalculateMd5(r_src) = CalculateMd5(r_pre[r_dest]))
             /\ (r_pc = "raised") <=>
                    /\ CalculateMd5(r_src) # CalculateMd5(r_pre[r_dest])
                    /\ \A k \in 1..RenameLimit :
                          Exists(r_pre, Candidate(r_dest, k)))
    /\ [][ ComparedExisting =>
             IF r_pc = "raised"
             THEN r_dir' = r_pre /\ r_loc' = r_loc /\ ~r_result'[1].success
             ELSE IF r_src = r_pre[r_dest] THEN SkipStep ELSE RenamedStep ]_vars

C11_Witness ==
    /\ r_pc = "idle"
    /\ r_calls = 1
    /\ r_policy = "comparar"
    /\ r_src = NewContent
    /\ r_loc = << "output", Candidate(r_dest, 1) >>
    /\ r_dir[r_dest] = OldContent
    /\ r_dir[Candidate(r_dest, 1)] = NewContent

\* the resolver was called with "sobrescribir" on an existing destination
\* whose content differs from the source, and has returned or raised
OverwritingOther ==
    /\ r_pc \in { "ret", "raised" }
    /\ r_policy = "sobrescribir"
    /\ Exists(r_pre, r_dest)
    /\ r_pre[r_dest] # r_src

\* C12: with "sobrescribir" and an existing destination whose content
\* differs from the source, the resolver deletes the existing file and
\* returns the same path; after the move the destination path holds the
\* content of the source, every other file of the folder is as it was and
\* no further file has been created.
C12_OverwriteReplacesContent ==
    /\ [] (OverwritingOther =>
             /\ r_pc = "ret"
             /\ r_ret = << r_dest >>
             /\ DOMAIN r_dir = DOMAIN r_pre \ { r_dest }
             /\ \A n \in DOMAIN r_dir : r_dir[n] = r_pre[n])
    /\ [][ OverwritingOther =>
             /\ DOMAIN r_dir' = DOMAIN r_pre
             /\ r_dir'[r_dest] = r_src
             /\ \A n \in DOMAIN r_pre \ { r_dest } : r_dir'[n] = r_pre[n]
             /\ r_loc' = << "output", r_dest >>
             /\ r_result'[1].success ]_vars

C12_Witness ==
    /\ r_pc = "idle"
    /\ r_calls = 1
    /\ r_policy = "sobrescribir"
    /\ Exists(r_pre, r_dest)
    /\ r_pre[r_dest] = OldContent
    /\ r_loc = << "output", r_dest >>
    /\ r_dir[r_dest] = NewContent
    /\ Cardinality(DOMAIN r_dir) = 2

\* the resolver was called with "renombrar" on a destination that exists,
\* and has returned or raised
RenamedExisting ==
    /\ r_pc \in { "ret", "raised" }
    /\ r_policy = "renombrar"
    /\ Exists(r_pre, r_dest)

\* candidate N is free and every candidate before it is taken
FirstFree(N) ==
    /\ ~Exists(r_pre, Candidate(r_dest, N))
    /\ \A k \in 1..(N - 1) : Exists(r_pre, Candidate(r_dest, k))

\* the loop tries the candidates in the order 1, 2, 3, ...
ProbesInOrder ==
    [][ /\ (r_pc = "unique" /\ r_pc' = "probe") => r_counter' = 1
        /\ (r_pc = "probe" /\ r_pc' # "ret") => r_counter' = r_counter + 1
        /\ (r_pc = "probe" /\ r_pc' = "ret") =>
              r_ret' = << Candidate(r_dest, r_counter) >> ]_vars

\* C13 as stated: with "renombrar" and an existing destination stem.ext the
\* resolver returns stem_N.ext for the smallest N >= 1 such that stem_N.ext
\* does not exist, the candidates being tried in the order 1, 2, 3, ...
C13_RenameFirstFree ==
    /\ [] (RenamedExisting =>
             /\ r_pc = "ret"
             /\ \E N \in 1..(RenameLimit + 1) :
                   r_ret = << Candidate(r_dest, N) >> /\ FirstFree(N))
    /\ ProbesInOrder

\* C13 amended: the smallest such N is returned when it is at most 1000;
\* when stem_1 .. stem_1000 all exist the resolver raises and returns
\* nothing.
C13_RenameFirstFreeUpToLimit ==
    /\ [] (RenamedExisting =>
             IF \E N \in 1..RenameLimit : FirstFree(N)
             THEN /\ r_pc = "ret"
                  /\ \E N \in 1..RenameLimit :
                        r_ret = << Candidate(r_dest, N) >> /\ FirstFree(N)
             ELSE r_pc = "raised" /\ r_ret = <<>>)
    /\ ProbesInOrder

C13_Witness ==
    /\ r_pc = "ret"
    /\ r_policy = "renombrar"
    /\ Exists(r_pre, r_dest)
    /\ Exists(r_pre, Candidate(r_dest, 1))
    /\ ~Exists(r_pre, Candidate(r_dest, 2))
    /\ r_ret = << Candidate(r_dest, 2) >>
    /\ r_counter = 2

(***************************************************************************)
(* Claims about configuration errors and listing errors.                   *)
(***************************************************************************)
\* C14: when the root directory does not exist, search_and_copy reports a
\* failed operation to its caller (an exception, or an error counted and
\* recorded in the statistics), and it scans no directory, creates no
\* destination and copies no file.
C14_MissingRootFails ==
    (pc = "done" /\ ~sourceExists) =>
        /\ raised \/ stats.errors > 0 \/ stats.error_details # <<>>
        /\ stats.searched = 0
        /\ subdirs = <<>>
        /\ destDir = (dest # <<>>)
        /\ stats.copied = 0
        /\ copyLog = <<>>

\* C15: when the reference text yields no token, audit returns the failed
\* result (status "error", nothing missing, nothing extra) at once: the
\* folder is not scanned and no audit row is saved.
C15_EmptyReferenceFails ==
    (a_pc = "done" /\ ReferenceTokens[a_text] = {}) =>
        /\ a_result[1].status = "error"
        /\ a_result[1].reference_count = 0
        /\ a_result[1].found_count = 0
        /\ a_result[1].missing = <<>>
        /\ a_result[1].extra = <<>>
        /\ ~a_scanned
        /\ a_db = <<>>

C15_Witness ==
    /\ a_pc = "done"
    /\ a_text = "OC\tSUMINISTRO\nsn\tabc"
    /\ a_files = << "100045_report.pdf", "100046.PDF" >>
    /\ a_result[1].status = "error"

\* matches of token t in the directories whose task was listed without error
MatchesListed(t) ==
    { << i, p >> \in (1..Len(subdirs)) \X PhysicalMatches(t) :
        i \notin listFailed /\ p[1] = subdirs[i] }

C17_NoEmptyToken ==
    a_pc = "done" =>
        /\ "" \notin ParseReferenceList(a_text).numbers
        /\ "" \notin DOMAIN ParseReferenceList(a_text).complete_data
        /\ a_scanned =>
              /\ "" \notin ScanFolder(a_files, a_pattern).found
              /\ "" \notin DOMAIN ScanFolder(a_files, a_pattern).file_map
              /\ \A i \in 1..Len(a_result[1].extra) :
                    a_result[1].extra[i].number # ""

(***************************************************************************)
(* Claims about process_file.                                              *)
(***************************************************************************)
\* C18: a file in which no QR code is read is moved into the error folder:
\* when process_file returns, the file is inside error_folder, action is
\* 'moved_to_error' and final_path is a path inside error_folder, also when
\* error_folder already holds a file of that name.
C18_NoQrGoesToErrorFolder ==
    [][ (r_pc = "idle" /\ r_pc' = "idle" /\ r_calls' = r_calls + 1) =>
            /\ r_loc'[1] = "error"
            /\ Exists(r_errdir', r_loc'[2])
            /\ r_errdir'[r_loc'[2]] = r_src'
            /\ r_result'[1].action = "moved_to_error"
            /\ r_result'[1].final_path = r_loc' ]_vars


(***************************************************************************)
(* CodeGenerator (unique_code_gen.py): generate_code and generate_batch    *)
(* over the generated_codes table.  A call of generate_code that finds its *)
(* candidate in the table calls itself; the value of the inner call is     *)
(* returned unchanged by every outer frame, so the frames are modelled as  *)
(* the iterations of one loop and g_tries is the depth of the recursion.   *)
(***************************************************************************)
\* codes asked for by one generate_batch call
MaxCount == 2
\* frames the interpreter allows generate_code before RecursionError
MaxDepth == 5
\* range(3) of the retry loop
RetryLimit == 3

\* str.isalpha, str.isupper and str.isalnum over ASCII
IsAlphaChar(c) ==
    \E i \in 1..26 : Char(LowerChars, i) = c \/ Char(UpperChars, i) = c

IsLowerChar(c) == \E i \in 1..26 : Char(LowerChars, i) = c

IsUpperChar(c) == \E i \in 1..26 : Char(UpperChars, i) = c

IsAlpha(s) == s # "" /\ \A i \in 1..Len(s) : IsAlphaChar(Char(s, i))

IsUpper(s) ==
    /\ \E i \in 1..Len(s) : IsUpperChar(Char(s, i))
    /\ \A i \in 1..Len(s) : ~IsLowerChar(Char(s, i))

IsAlnum(s) ==
    s # "" /\ \A i \in 1..Len(s) : IsAlphaChar(Char(s, i)) \/ IsDigit(Char(s, i))

\* validate_inacal_code: <<valid, message>>
ValidateInacalCode(code) ==
    IF code = "" \/ Strip(code) = ""
    THEN << FALSE, "El código está vacío" >>
    ELSE IF Len(code) # 10
    THEN << FALSE, "El código debe tener exactamente 10 caracteres" >>
    ELSE IF ~IsUpper(code)
    THEN << FALSE, "El código debe estar en mayúsculas" >>
    ELSE IF ~IsAlnum(code)
    THEN << FALSE, "El código debe contener solo letras y números" >>
    ELSE << TRUE, "" >>

RECURSIVE Zeros(_)
Zeros(k) == IF k <= 0 THEN "" ELSE "0" \o Zeros(k - 1)

\* outcomes of ''.join(random.choices(string.digits, k=k)): two of the 10^k
DigitChoices(k) ==
    IF k <= 0 THEN { "" } ELSE { Zeros(k), Zeros(k - 1) \o "1" }

\* outcomes of ''.join(random.choices(string.ascii_uppercase, k=4))
LetterChoices == { "ABCD" }

\* the candidate codes one frame of generate_code can draw
Candidates(prefix, length) ==
    IF prefix # ""
    THEN { Upper(prefix) \o d : d \in DigitChoices(length - Len(prefix)) }
    ELSE { l \o d : l \in LetterChoices, d \in DigitChoices(6) }

\* the prefix arguments and the length arguments of the callers
Prefixes == { "", "agua", "a1", "largo" }

Lengths == { 10, 3 }

\* contents of generated_codes before the first call
StoredCodes ==
    SUBSET { "ABCD000000", "ABCD000001", "AGUA000000", "AGUA000001" }

\* db.code_exists
CodeExists(db, code) == code \in db

\* db.save_generated_code when the insert succeeds
SaveGeneratedCode(db, code) == db \cup { code }

\* generate_code(prefix, length) called by a client
GenerateCodeCall(prefix, length) ==
    /\ g_pc = "idle"
    /\ g_pc' = "gen"
    /\ g_batch' = FALSE
    /\ g_cprefix' = prefix
    /\ g_length' = length
    /\ g_tries' = 0
    /\ g_ret' = <<>>
    /\ UNCHANGED << g_db, g_count, g_prefix, g_save, g_i, g_successful,
                    g_errors, g_log, searchVars, auditVars, resolverVars >>

\* generate_batch(count, prefix, save_to_db=save) up to the for loop
GenerateBatch(count, prefix, save) ==
    /\ g_pc = "idle"
    /\ g_pc' = "loop"
    /\ g_batch' = TRUE
    /\ g_count' = count
    /\ g_prefix' = prefix
    /\ g_save' = save
    /\ g_i' = 0
    /\ g_successful' = <<>>
    /\ g_errors' = <<>>
    /\ UNCHANGED << g_db, g_cprefix, g_length, g_tries, g_ret, g_log,
                    searchVars, auditVars, resolverVars >>

\* for i in range(count): success, code = self.generate_code(prefix)
BatchCall ==
    /\ g_pc = "loop"
    /\ g_i < g_count
    /\ g_pc' = "gen"
    /\ g_cprefix' = g_prefix
    /\ g_length' = 10
    /\ g_tries' = 0
    /\ g_ret' = <<>>
    /\ UNCHANGED << g_db, g_batch, g_count, g_prefix, g_save, g_i,
                    g_successful, g_errors, g_log, searchVars, auditVars,
                    resolverVars >>

\* where generate_code hands its value
Returned(value) ==
    /\ g_ret' = value
    /\ g_pc' = IF g_batch THEN "ret" ELSE "done"

\* one frame of generate_code: lines 132-168
GenerateCode ==
    /\ g_pc = "gen"
    /\ IF g_cprefix # "" /\ (Len(g_cprefix) > 4 \/ ~IsAlpha(g_cprefix))
       THEN /\ Returned(<< FALSE, "Prefijo inválido (máx 4 letras)" >>)
            /\ UNCHANGED << g_cprefix, g_tries >>
       ELSE \E code \in Candidates(g_cprefix, g_length) :
            /\ g_tries' = g_tries + 1
            /\ g_cprefix' = Upper(g_cprefix)
            /\ IF ~ValidateInacalCode(code)[1]
               THEN Returned(<< FALSE, ValidateInacalCode(code)[2] >>)
               ELSE IF CodeExists(g_db, code)
               THEN IF g_tries + 1 < MaxDepth
                    THEN \* return self.generate_code(prefix, length)
                         /\ g_pc' = "gen"
                         /\ g_ret' = g_ret
                    ELSE \* RecursionError, caught at line 165
                         Returned(<< FALSE, "Error al generar código: maximum recursion depth exceeded" >>)
               ELSE Returned(<< TRUE, code >>)
    /\ UNCHANGED << g_db, g_batch, g_count, g_prefix, g_save, g_i,
                    g_successful, g_errors, g_length, g_log, searchVars,
                    auditVars, resolverVars >>

\* the body of the for loop after generate_code returned: lines 229-241
BatchCollect ==
    /\ g_pc = "ret"
    /\ g_pc' = "loop"
    /\ g_i' = g_i + 1
    /\ IF g_ret[1]
       THEN /\ g_successful' = Append(g_successful, g_ret[2])
            /\ g_errors' = g_errors
            /\ IF g_save
               THEN \/ g_db' = SaveGeneratedCode(g_db, g_ret[2])
                    \/ g_db' = g_db      \* the insert raised: a warning only
               ELSE g_db' = g_db
       ELSE /\ g_errors' = Append(g_errors,
                    "Error al generar código " \o ToString(g_i + 1) \o ": "
                        \o g_ret[2])
            /\ UNCHANGED << g_successful, g_db >>
    /\ UNCHANGED << g_batch, g_count, g_prefix, g_save, g_cprefix, g_length,
                    g_tries, g_ret, g_log, searchVars, auditVars,
                    resolverVars >>

\* after the loop: log_operation and return successful, errors
BatchReturn ==
    /\ g_pc = "loop"
    /\ g_i >= g_count
    /\ g_pc' = "done"
    /\ g_log' = << [ success |-> (Len(g_errors) = 0),
                     total |-> g_count,
                     success_count |-> Len(g_successful),
                     error_count |-> Len(g_errors) ] >>
    /\ UNCHANGED << g_db, g_batch, g_count, g_prefix, g_save, g_i,
                    g_successful, g_errors, g_cprefix, g_length, g_tries,
                    g_ret, searchVars, auditVars, resolverVars >>

InitGenerate ==
    /\ SearchIdle
    /\ AuditIdle
    /\ ResolverIdle
    /\ g_pc = "idle"
    /\ g_db \in StoredCodes
    /\ g_batch = FALSE
    /\ g_count = 0
    /\ g_prefix = ""
    /\ g_save = FALSE
    /\ g_i = 0
    /\ g_successful = <<>>
    /\ g_errors = <<>>
    /\ g_cprefix = ""
    /\ g_length = 0
    /\ g_tries = 0
    /\ g_ret = <<>>
    /\ g_log = <<>>

NextGenerate ==
    \/ \E prefix \in Prefixes, length \in Lengths :
            GenerateCodeCall(prefix, length)
    \/ \E count \in 1..MaxCount, prefix \in Prefixes, save \in BOOLEAN :
            GenerateBatch(count, prefix, save)
    \/ BatchCall
    \/ GenerateCode
    \/ BatchCollect
    \/ BatchReturn

SpecGenerate == InitGenerate /\ [][NextGenerate]_vars

(***************************************************************************)
(* C19: generate_code retries at most RetryLimit times when its candidate  *)
(* is already stored, so that one call generates at most RetryLimit + 1    *)
(* candidate codes whatever the table contains (a call that has used up    *)
(* its retries returns (False, message) instead of drawing a fifth).       *)
(***************************************************************************)
C19_AtMostThreeRetries == g_tries <= RetryLimit + 1

(***************************************************************************)
(* C20: a code returned as successful by generate_code is not in the table *)
(* when it is returned, and the codes returned by one generate_batch call  *)
(* are pairwise distinct, whether or not the codes are saved and whether   *)
(* or not a save fails.                                                    *)
(***************************************************************************)
C20_CodesAreUnique ==
    /\ ((g_pc = "ret" \/ (g_pc = "done" /\ ~g_batch)) /\ g_ret # <<>> /\ g_ret[1]) =>
            ~CodeExists(g_db, g_ret[2])
    /\ \A i, j \in 1..Len(g_successful) :
            i # j => g_successful[i] # g_successful[j]

(***************************************************************************)
(* Further claims about search_and_copy.                                   *)
(***************************************************************************)
\* some scan task is still queued or running
ScanPending == \E i \in DOMAIN task : task[i].st = "queued"

\* a pool worker ran a task in this step
WorkerStep ==
    \E i \in DOMAIN task :
        /\ task[i].st = "queued"
        /\ i \in DOMAIN task'
        /\ task'[i].st # "queued"

\* C21: the copy phase starts only after the scan phase is over: the driver
\* enters the copy loop with no scan task queued or running, also when the
\* scan loop was left by cancellation; a file is copied only by the driver,
\* one file per step, while no scan task is pending; a worker copies nothing.
C21_CopyAfterScan ==
    [][ pc \notin { "idle", "done" } =>
          /\ (pc = "join" /\ pc' = "copy") => ~ScanPending
          /\ (copyLog' # copyLog \/ dest' # dest
                  \/ stats'.copied # stats.copied) =>
                /\ pc = "cfile"
                /\ ~ScanPending
                /\ Len(copyLog') = Len(copyLog) + 1
                /\ stats'.copied <= stats.copied + 1
          /\ WorkerStep => UNCHANGED << dest, copyLog, stats >> ]_vars

C21_Witness ==
    /\ pc = "cpoll"
    /\ Len(subdirs) = 3
    /\ stats.searched = 3
    /\ Len(copyLog) = 2
    /\ copyLog[2].ok
    /\ copyLog[2].src[1] = 1

\* the driver is in the copy loop
CopyPhase == pc \in { "copy", "cpoll", "cfile" }

\* C22: in the copy phase the flag is polled between files: a poll that
\* finds it set starts no copy, and the flag stays set, so that no copy is
\* started afterwards for this token or a later one; a copy already begun
\* when stop() is called is carried out; the files copied so far stay in the
\* destination and copied never decreases.
C22_CopyCancelBetweenFiles ==
    [][ CopyPhase =>
          /\ (pc = "cpoll" /\ stop_requested) => pc' \in { "cpoll", "copy" }
          /\ stop_requested => stop_requested'
          /\ (pc = "cfile" /\ pc' # "cfile") =>
                /\ Len(copyLog') = Len(copyLog) + 1
                /\ copyLog'[Len(copyLog')].src = found_files[setOrder[tokIdx]][idx + 1]
                /\ copyLog'[Len(copyLog')].ok =>
                      /\ copyLog'[Len(copyLog')].dst \in DOMAIN dest'
                      /\ stats'.copied = stats.copied + 1
          /\ stats'.copied >= stats.copied
          /\ \A f \in DOMAIN dest : f \in DOMAIN dest' ]_vars

C22_Witness ==
    /\ pc = "done"
    /\ stop_requested
    /\ stopAt = <<>>
    /\ stats.copied = 1
    /\ stats.errors = 0
    /\ stats.found = 3
    /\ Len(copyLog) = 1
    /\ copyLog[1].dst \in DOMAIN dest

\* what the task of subdirs[i] returned
ResultOf(i) ==
    IF i \in listFailed THEN <<>> ELSE SearchInDirectory(subdirs[i])

\* the matches of token t in the result of task i
MatchesIn(t, i) ==
    { k \in 1..Len(ResultOf(i)) : ResultOf(i)[k][1] = t }

RECURSIVE MergedCount(_, _)
\* the number of matches of token t in the merged results among tasks 1..n
MergedCount(t, n) ==
    IF n = 0 THEN 0
    ELSE MergedCount(t, n - 1)
            + (IF n \in merged THEN Cardinality(MatchesIn(t, n)) ELSE 0)

RECURSIVE TotalMerged(_)
\* the number of merged matches of the tokens setOrder[1..k]
TotalMerged(k) ==
    IF k = 0 THEN 0
    ELSE TotalMerged(k - 1) + MergedCount(setOrder[k], Len(subdirs))

\* search_and_copy returned, cancelled, its loops left by their ends or by
\* the breaks of lines 100 and 123 and not by an exception
CancelledReturn ==
    /\ pc = "done"
    /\ stop_requested
    /\ CopyLoopDone

\* C23: when a cancelled search_and_copy returns, every match of every
\* directory result the driver merged is in the statistics: found counts
\* them all, a token with a merged match is not in not_found, and a token
\* with more than one merged match has that number in duplicate_files.
C23_PartialResultsKept ==
    CancelledReturn =>
        /\ stats.found = TotalMerged(Len(setOrder))
        /\ stats.searched = Cardinality(merged)
        /\ \A t \in Tokens :
              LET n == MergedCount(t, Len(subdirs))
              IN  /\ Len(found_files[t]) = n
                  /\ n > 0 => \A j \in 1..Len(stats.not_found) :
                                    stats.not_found[j] # t
                  /\ n > 1 => /\ t \in DOMAIN stats.duplicate_files
                              /\ stats.duplicate_files[t] = n

C23_Witness ==
    /\ CancelledReturn
    /\ stopAt # <<>>
    /\ Cardinality(merged) = 2
    /\ Len(subdirs) = 3
    /\ stats.found = 2
    /\ stats.duplicate_files # <<>>
    /\ stats.copied = 0

\* C24: a step of a scan task changes nothing but the task's own future: not
\* found_files, not the statistics, not the cancellation flag; and while the
\* scan is under way found_files and the statistics change only in the
\* driver's merge step, by the result of the one completed task it merges.
C24_WorkersWriteNothingShared ==
    [][ /\ WorkerStep =>
              /\ UNCHANGED << found_files, stats, stop_requested, merged,
                              dest, copyLog, pc >>
              /\ \E i \in DOMAIN task :
                    /\ DOMAIN task' = DOMAIN task
                    /\ \A j \in DOMAIN task : j # i => task'[j] = task[j]
                    /\ task'[i].st = "done" =>
                          task'[i].res \in { SearchInDirectory(subdirs[i]), <<>> }
        /\ (pc \in { "scan", "merge" }
                /\ (found_files' # found_files \/ stats' # stats)) =>
              /\ pc = "merge"
              /\ task' = task
              /\ cur \notin merged
              /\ task[cur].st # "queued"
              /\ merged' = merged \cup { cur }
              /\ stats' = [stats EXCEPT !.searched = @ + 1]
              /\ found_files' \in { found_files,
                                    MergeResult(found_files, task[cur].res) } ]_vars

C24_Witness ==
    /\ pc = "scan"
    /\ merged = { 1 }
    /\ 3 \in DOMAIN task
    /\ task[2].st = "queued"
    /\ task[3].st = "done"
    /\ task[3].res # <<>>
    /\ \E t \in DOMAIN found_files : Len(found_files[t]) = 1
    /\ stats.searched = 1

C26_ExhaustionFailsOneFile ==
    /\ [] ( /\ r_counter <= RenameLimit + 1
            /\ r_pc = "raised" =>
                  /\ r_counter = RenameLimit + 1
                  /\ Exists(r_dir, r_dest)
                  /\ \A k \in 1..RenameLimit : Exists(r_dir, Candidate(r_dest, k))
            /\ (r_pc = "idle" /\ r_calls < MaxCalls) => ENABLED ProcessFile )
    /\ [][ (r_pc = "raised" /\ r_pc' # "raised") =>
              /\ r_pc' = "idle"
              /\ r_stats' = [ r_stats EXCEPT !.procesados = @ + 1,
                                             !.fallidos = @ + 1 ]
              /\ ~r_result'[1].success
              /\ r_result'[1].action = ""
              /\ r_loc' = << "input", SrcName(r_calls) >>
              /\ UNCHANGED << r_dir, r_errdir, r_src, r_calls >> ]_vars

C26_Witness ==
    /\ r_pc = "check"
    /\ r_calls = 2
    /\ r_stats.fallidos = 1
    /\ r_stats.procesados = 1
    /\ r_policy = "comparar"
    /\ Cardinality(DOMAIN r_dir) = RenameLimit + 1

(***************************************************************************)
(* Further claims about the audit.                                         *)
(***************************************************************************)
\* the tokens scan_folder extracts from one file: one token, or none
TokenOfFile(filename, pattern) == ScanFolder(<< filename >>, pattern).found

\* C27: every scanned file whose token is not in the reference set is named
\* by an entry of the extra list, also when several files yield that token.
C27_ExtraNamesEveryFile ==
    (a_pc = "done" /\ a_result[1].status # "error") =>
        \A i \in 1..Len(a_files) :
            \A t \in TokenOfFile(a_files[i], a_pattern) :
                t \notin ReferenceTokens[a_text] =>
                    \E j \in 1..Len(a_result[1].extra) :
                        /\ a_result[1].extra[j].number = t
                        /\ a_result[1].extra[j].filename = a_files[i]

\* the orders in which the files of the folder can be visited
ScanOrders(files) ==
    { [ i \in 1..Len(files) |-> files[p[i]] ] : p \in Perms(1..Len(files)) }

\* C28: for a fixed reference text and a fixed set of files, every order of
\* visiting the files gives the same missing and extra lists.
C28_ResultIndependentOfScanOrder ==
    (a_pc = "done" /\ a_result[1].status # "error") =>
        \A other \in ScanOrders(a_files) :
            LET r == AuditResult(other, a_text, a_pattern)
            IN  /\ r.missing = a_result[1].missing
                /\ r.extra = a_result[1].extra

(***************************************************************************)
(* Claims about matching and counting in search_and_copy.                  *)
(***************************************************************************)
\* the (token, path) pairs of directory d: the files directly in d whose
\* name starts with the token
PrefixPairs(d) ==
    { q \in Tokens \X FilesIn(d) : StartsWith(q[2][2], q[1]) }

\* C29: a scan task whose directory was listed returns the pair
\* (token, path) exactly for the regular files directly in that directory
\* whose name starts with the token, each pair once: a file that starts
\* with several requested tokens appears under each of them, and an entry
\* that is a directory never appears.
C29_PrefixMatching ==
    \A i \in DOMAIN task :
        (task[i].st = "done" /\ i \notin listFailed) =>
            LET res == task[i].res
            IN  /\ SeqToSet(res) = PrefixPairs(subdirs[i])
                /\ Len(res) = Cardinality(PrefixPairs(subdirs[i]))
                /\ \A k \in 1..Len(res), j \in 1..tree.n :
                      res[k][2][2] # tree.dname[j]

C29_Witness ==
    /\ tree.n = 1
    /\ 1 \in DOMAIN task
    /\ task[1].st = "done"
    /\ 1 \notin listFailed
    /\ subdirs[1] = 0
    /\ \E t \in Tokens : StartsWith(tree.dname[1], t)
    /\ \E k1, k2 \in 1..Len(task[1].res) :
          /\ task[1].res[k1][1] # task[1].res[k2][1]
          /\ task[1].res[k1][2] = task[1].res[k2][2]
    /\ \E p \in FilesIn(0), t \in Tokens : << t, p >> \notin SeqToSet(task[1].res)

\* occurrences of token t in not_found
TimesNotFound(t) ==
    Cardinality({ j \in 1..Len(stats.not_found) : stats.not_found[j] = t })

\* search_and_copy has returned
Returned_Search == pc = "done" /\ run > 0

\* the accounting of the counters on return
AccountingOnReturn ==
    /\ \A t \in Tokens :
          \/ /\ TimesNotFound(t) = 1
             /\ (t \in DOMAIN found_files => found_files[t] = <<>>)
          \/ /\ TimesNotFound(t) = 0
             /\ t \in DOMAIN found_files
             /\ Len(found_files[t]) >= 1
             /\ stats.found >= Len(found_files[t])
    /\ stats.found = TotalMerged(Len(setOrder))
    /\ stats.copied + stats.errors <= stats.found
    /\ ~stop_requested => stats.copied + stats.errors = stats.found

\* C30: in a run without general exception, found is the number of merged
\* matches, copied + errors <= found throughout the copy phase,
\* copied + errors = found on return of an uncancelled run, and on return
\* every requested token is either once in not_found or has a match
\* counted in found, never both.
C30_CounterAccounting ==
    /\ (CopyPhase /\ ~GeneralError(stats)) =>
            stats.copied + stats.errors <= stats.found
    /\ (Returned_Search /\ ~GeneralError(stats)) => AccountingOnReturn

=============================================================================
